---- MODULE Spec2Model ----
(***************************************************************************)
(* Model of the diagnostic rule engine of backend/main.py: analyze_text,   *)
(* its eleven rules and _build_response.                                    *)
(*                                                                          *)
(* A source text is built from a small catalogue of Python statements      *)
(* (Catalogue below) plus a run of blank lines inserted at one place.  For *)
(* every such text the model carries the lines code.splitlines() returns   *)
(* and the outcome of ast.parse(code): the syntax tree CPython builds for  *)
(* it, a SyntaxError, or another exception.                                 *)
(***************************************************************************)
EXTENDS Integers, Sequences, FiniteSets

(***************************************************************************)
(* Bounds of the model.                                                     *)
(***************************************************************************)
MaxStmts == 2
NumCalls == 2

(***************************************************************************)
(* Constants of the program.                                                *)
(***************************************************************************)
FileVeryLong == 200
FileLong == 80
FuncVeryLong == 50
FuncLong == 20
NoLineKey == 9999
DefaultRank == 3
LoopDepthLimit == 3
NoColumn == -1
MAGIC_NUMBER_WHITELIST == {0, 1, -1, 2, 100}

\* Python's None where a line number is expected ("line": None, a node
\* without a lineno attribute, SyntaxError.lineno of None).  Line numbers
\* are 1-based, so 0 is free; like None it is falsy for `or`.
None == 0

(***************************************************************************)
(* Diagnostics.                                                             *)
(***************************************************************************)
\* The message of a diagnostic: the rule's text, with the name and the
\* number the f-string interpolates ("" and 0 where it interpolates none).
Msg(rule, name, num) == [rule |-> rule, name |-> name, num |-> num]

Issue(severity, line, message) ==
    [severity |-> severity, line |-> line, message |-> message]

(***************************************************************************)
(* Generic sequence helpers.                                                *)
(***************************************************************************)
RECURSIVE Flatten(_)
Flatten(ss) == IF ss = <<>> THEN <<>> ELSE Head(ss) \o Flatten(Tail(ss))

Min(S) == CHOOSE x \in S : \A y \in S : x <= y
Max(S) == CHOOSE x \in S : \A y \in S : y <= x

\* The elements of a set of integers in ascending order.
RECURSIVE Ascending(_)
Ascending(S) == IF S = {} THEN <<>> ELSE <<Min(S)>> \o Ascending(S \ {Min(S)})

(***************************************************************************)
(* Source text.  A text is a sequence of statements of the catalogue, each *)
(* on its own line(s), with `pad` blank lines inserted before line `pos`   *)
(* of them (pos one past the last line: appended).  Every line ends in a   *)
(* newline.                                                                 *)
(***************************************************************************)
\* The source lines of each statement of the catalogue.  <NUL> stands for
\* the character U+0000 and <U+DC80> for a lone surrogate, which a string
\* of this notation cannot hold.
SourceLines(stmt) ==
    CASE stmt = "ws"           -> << "   " >>
      [] stmt = "todo"         -> << "# TODO: print(x)" >>
      [] stmt = "print"        -> << "print(x)" >>
      [] stmt = "assign"       -> << "x = 7" >>
      [] stmt = "aug"          -> << "x += 1" >>
      [] stmt = "import_print" -> << "import os; print(x)" >>
      [] stmt = "attr"         -> << "os.getcwd()" >>
      [] stmt = "func"         -> << "def f(a=[]):", "    x = 7" >>
      [] stmt = "func_used"    -> << "def g():", "    'doc'", "    # fixme: tidy",
                                     "    x = 7", "    return x" >>
      [] stmt = "loops"        -> << "for i in a:", "    for j in a:",
                                     "        for k in a:", "            pass" >>
      [] stmt = "try"          -> << "try:", "    pass", "except:", "    pass" >>
      [] stmt = "class"        -> << "class C:", "    pass" >>
      [] stmt = "broken"       -> << "def f(:" >>
      [] stmt = "nul"          -> << "x = '<NUL>'" >>
      [] stmt = "surrogate"    -> << "x = '<U+DC80>'" >>

Catalogue ==
    {"ws", "todo", "print", "assign", "aug", "import_print", "attr",
     "func", "func_used", "loops", "try", "class", "broken", "nul", "surrogate"}

RECURSIVE BaseLines(_)
BaseLines(stmts) ==
    IF stmts = <<>> THEN <<>>
    ELSE SourceLines(Head(stmts)) \o BaseLines(Tail(stmts))

\* The number, in the whole text, of line k of the statements' own lines
\* (text: a code or its lines, which place the blank run alike).
AbsLine(text, k) == IF k >= text.pos THEN k + text.pad ELSE k

\* code.splitlines(): the statements' lines and where the blank run sits.
splitlines(code) ==
    [base |-> BaseLines(code.stmts), pos |-> code.pos, pad |-> code.pad]

\* len(lines)
LineCount(lines) == Len(lines.base) + lines.pad

\* lines[i - 1], for i in 1..len(lines)
LineAt(lines, i) ==
    IF i < lines.pos THEN lines.base[i]
    ELSE IF i < lines.pos + lines.pad THEN ""
    ELSE lines.base[i - lines.pad]

\* The numbers of the lines of the blank run.
BlankRun(lines) == lines.pos..(lines.pos + lines.pad - 1)

\* line.strip()
strip(line) ==
    CASE line = "   "                 -> ""
      [] line = "    x = 7"           -> "x = 7"
      [] line = "    'doc'"           -> "'doc'"
      [] line = "    # fixme: tidy"   -> "# fixme: tidy"
      [] line = "    return x"        -> "return x"
      [] line = "    for j in a:"     -> "for j in a:"
      [] line = "        for k in a:" -> "for k in a:"
      [] line = "            pass"    -> "pass"
      [] line = "    pass"            -> "pass"
      [] OTHER                        -> line

\* stripped.startswith("#")
StartsWithHash(stripped) == stripped \in {"# TODO: print(x)", "# fixme: tidy"}

\* "print(" in line
ContainsPrintCall(line) ==
    line \in {"# TODO: print(x)", "print(x)", "import os; print(x)"}

\* stripped.upper()
upper(stripped) ==
    CASE stripped = "# TODO: print(x)" -> "# TODO: PRINT(X)"
      [] stripped = "# fixme: tidy"    -> "# FIXME: TIDY"
      [] OTHER                         -> stripped

\* "TODO" in upper or "FIXME" in upper or "HACK" in upper
ContainsMarker(up) == up \in {"# TODO: PRINT(X)", "# FIXME: TIDY"}

(***************************************************************************)
(* The rules that read the raw lines.                                       *)
(***************************************************************************)
\* A line that is no comment and contains "print(".
IsPrintLine(line) == ~StartsWithHash(strip(line)) /\ ContainsPrintCall(line)

\* for i, line in enumerate(lines, start=1): the numbers i of the lines
\* RULE 1 reports.  The lines of the blank run are all "", so they are
\* decided once.
PrintLines(lines) ==
    {AbsLine(lines, k) : k \in {j \in 1..Len(lines.base) : IsPrintLine(lines.base[j])}}
    \cup (IF IsPrintLine("") THEN BlankRun(lines) ELSE {})

\* RULE 1: one WARNING per line that is no comment and contains "print(".
PrintRule(lines) ==
    LET at == Ascending(PrintLines(lines))
    IN  [k \in 1..Len(at) |-> Issue("WARNING", at[k], Msg("print", "", 0))]

\* FileLengthRule with the thresholds compared by >= instead of >.
FileLengthRuleInclusive(lines) ==
    IF LineCount(lines) >= FileVeryLong
    THEN << Issue("WARNING", None, Msg("file_very_long", "", LineCount(lines))) >>
    ELSE IF LineCount(lines) >= FileLong
    THEN << Issue("INFO", None, Msg("file_long", "", LineCount(lines))) >>
    ELSE << >>

\* RULE 2: the file's length against the two thresholds.
FileLengthRule(lines) ==
    IF LineCount(lines) > FileVeryLong
    THEN << Issue("WARNING", None, Msg("file_very_long", "", LineCount(lines))) >>
    ELSE IF LineCount(lines) > FileLong
    THEN << Issue("INFO", None, Msg("file_long", "", LineCount(lines))) >>
    ELSE << >>

\* A comment line that carries TODO, FIXME or HACK.
IsMarkerComment(line) ==
    StartsWithHash(strip(line)) /\ ContainsMarker(upper(strip(line)))

\* The numbers of the lines RULE 11 reports.
MarkerLines(lines) ==
    {AbsLine(lines, k) : k \in {j \in 1..Len(lines.base) : IsMarkerComment(lines.base[j])}}
    \cup (IF IsMarkerComment("") THEN BlankRun(lines) ELSE {})

\* RULE 11: one INFO per comment line that carries a marker.
TodoRule(lines) ==
    LET at == Ascending(MarkerLines(lines))
    IN  [k \in 1..Len(at) |->
            Issue("INFO", at[k], Msg("todo", strip(LineAt(lines, at[k])), 0))]

(***************************************************************************)
(* Syntax trees.  A node is a record with the class name of the ast node   *)
(* (type), its lineno (None where the class has none), the attributes the  *)
(* rules read, and `fields`: the node-valued fields in the order of the    *)
(* class's _fields, each with its list of child nodes.                     *)
(***************************************************************************)
\* Load, Store, Add: nodes without position or children.
Leaf(type) == [type |-> type, lineno |-> None, fields |-> << >>]

NameNode(id, ctx, ln) ==
    [type |-> "Name", lineno |-> ln, id |-> id,
     fields |-> << <<"ctx", << Leaf(ctx) >> >> >>]

\* value: what kind of Python value the literal is, and the number it is
\* when it is one.
ConstantNode(kind, num, ln, col) ==
    [type |-> "Constant", lineno |-> ln, col_offset |-> col,
     value |-> [kind |-> kind, num |-> num], fields |-> << >>]

ExprNode(value, ln) ==
    [type |-> "Expr", lineno |-> ln, fields |-> << <<"value", << value >> >> >>]

CallNode(func, args, ln) ==
    [type |-> "Call", lineno |-> ln,
     fields |-> << <<"func", << func >> >>, <<"args", args>>, <<"keywords", << >> >> >>]

AttributeNode(value, ln) ==
    [type |-> "Attribute", lineno |-> ln,
     fields |-> << <<"value", << value >> >>, <<"ctx", << Leaf("Load") >> >> >>]

AssignNode(targets, value, ln) ==
    [type |-> "Assign", lineno |-> ln,
     fields |-> << <<"targets", targets>>, <<"value", << value >> >> >>]

AugAssignNode(target, value, ln) ==
    [type |-> "AugAssign", lineno |-> ln,
     fields |-> << <<"target", << target >> >>, <<"op", << Leaf("Add") >> >>,
                   <<"value", << value >> >> >>]

\* name: the dotted name split at its dots; asname: "" for None.
AliasNode(name, asname, ln) ==
    [type |-> "alias", lineno |-> ln, name |-> name, asname |-> asname,
     fields |-> << >>]

ImportNode(names, ln) ==
    [type |-> "Import", lineno |-> ln, fields |-> << <<"names", names>> >>]

ArgNode(ln) == [type |-> "arg", lineno |-> ln, fields |-> << >>]

ArgumentsNode(args, defaults) ==
    [type |-> "arguments", lineno |-> None,
     fields |-> << <<"posonlyargs", << >> >>, <<"args", args>>, <<"vararg", << >> >>,
                   <<"kwonlyargs", << >> >>, <<"kw_defaults", << >> >>,
                   <<"kwarg", << >> >>, <<"defaults", defaults>> >>]

ListNode(ln) ==
    [type |-> "List", lineno |-> ln,
     fields |-> << <<"elts", << >> >>, <<"ctx", << Leaf("Load") >> >> >>]

FunctionDefNode(name, args, body, ln) ==
    [type |-> "FunctionDef", lineno |-> ln, name |-> name,
     fields |-> << <<"args", << args >> >>, <<"body", body>>,
                   <<"decorator_list", << >> >>, <<"returns", << >> >> >>]

ReturnNode(value, ln) ==
    [type |-> "Return", lineno |-> ln, fields |-> << <<"value", << value >> >> >>]

PassNode(ln) == [type |-> "Pass", lineno |-> ln, fields |-> << >>]

ForNode(target, iter, body, ln) ==
    [type |-> "For", lineno |-> ln,
     fields |-> << <<"target", << target >> >>, <<"iter", << iter >> >>,
                   <<"body", body>>, <<"orelse", << >> >> >>]

\* type: the handler's exception class, << >> for a bare `except:`.
ExceptHandlerNode(type, body, ln) ==
    [type |-> "ExceptHandler", lineno |-> ln,
     fields |-> << <<"type", type>>, <<"body", body>> >>]

TryNode(body, handlers, ln) ==
    [type |-> "Try", lineno |-> ln,
     fields |-> << <<"body", body>>, <<"handlers", handlers>>,
                   <<"orelse", << >> >>, <<"finalbody", << >> >> >>]

ClassDefNode(name, body, ln) ==
    [type |-> "ClassDef", lineno |-> ln, name |-> name,
     fields |-> << <<"bases", << >> >>, <<"keywords", << >> >>, <<"body", body>>,
                   <<"decorator_list", << >> >> >>]

ModuleNode(body) ==
    [type |-> "Module", lineno |-> None,
     fields |-> << <<"body", body>>, <<"type_ignores", << >> >> >>]

\* getattr(node, f): the children held by field f of the node.
Field(node, f) ==
    node.fields[CHOOSE i \in 1..Len(node.fields) : node.fields[i][1] = f][2]

\* ast.iter_child_nodes(node)
iter_child_nodes(node) ==
    Flatten([i \in 1..Len(node.fields) |-> node.fields[i][2]])

\* ast.walk(node): breadth first, the node itself first.
RECURSIVE WalkFrom(_)
WalkFrom(todo) ==
    IF todo = << >> THEN << >>
    ELSE << Head(todo) >> \o WalkFrom(Tail(todo) \o iter_child_nodes(Head(todo)))

walk(node) == WalkFrom(<< node >>)

(***************************************************************************)
(* ast.parse on the texts of the catalogue.  ln[j] is the line number of   *)
(* line j of the statement's own lines.                                     *)
(***************************************************************************)
\* The top-level statements CPython parses the statement's lines to.
Statements(stmt, ln) ==
    CASE stmt = "print" ->
           << ExprNode(CallNode(NameNode("print", "Load", ln[1]),
                                << NameNode("x", "Load", ln[1]) >>, ln[1]), ln[1]) >>
      [] stmt = "assign" ->
           << AssignNode(<< NameNode("x", "Store", ln[1]) >>,
                         ConstantNode("int", 7, ln[1], 4), ln[1]) >>
      [] stmt = "aug" ->
           << AugAssignNode(NameNode("x", "Store", ln[1]),
                            ConstantNode("int", 1, ln[1], 5), ln[1]) >>
      [] stmt = "import_print" ->
           << ImportNode(<< AliasNode(<< "os" >>, "", ln[1]) >>, ln[1]),
              ExprNode(CallNode(NameNode("print", "Load", ln[1]),
                                << NameNode("x", "Load", ln[1]) >>, ln[1]), ln[1]) >>
      [] stmt = "attr" ->
           << ExprNode(CallNode(AttributeNode(NameNode("os", "Load", ln[1]), ln[1]),
                                << >>, ln[1]), ln[1]) >>
      [] stmt = "func" ->
           << FunctionDefNode("f",
                 ArgumentsNode(<< ArgNode(ln[1]) >>, << ListNode(ln[1]) >>),
                 << AssignNode(<< NameNode("x", "Store", ln[2]) >>,
                               ConstantNode("int", 7, ln[2], 8), ln[2]) >>,
                 ln[1]) >>
      [] stmt = "func_used" ->
           << FunctionDefNode("g",
                 ArgumentsNode(<< >>, << >>),
                 << ExprNode(ConstantNode("str", 0, ln[2], 4), ln[2]),
                    AssignNode(<< NameNode("x", "Store", ln[4]) >>,
                               ConstantNode("int", 7, ln[4], 8), ln[4]),
                    ReturnNode(NameNode("x", "Load", ln[5]), ln[5]) >>,
                 ln[1]) >>
      [] stmt = "loops" ->
           << ForNode(NameNode("i", "Store", ln[1]), NameNode("a", "Load", ln[1]),
                 << ForNode(NameNode("j", "Store", ln[2]), NameNode("a", "Load", ln[2]),
                       << ForNode(NameNode("k", "Store", ln[3]),
                                  NameNode("a", "Load", ln[3]),
                                  << PassNode(ln[4]) >>, ln[3]) >>,
                       ln[2]) >>,
                 ln[1]) >>
      [] stmt = "try" ->
           << TryNode(<< PassNode(ln[2]) >>,
                      << ExceptHandlerNode(<< >>, << PassNode(ln[4]) >>, ln[3]) >>,
                      ln[1]) >>
      [] stmt = "class" ->
           << ClassDefNode("C", << PassNode(ln[2]) >>, ln[1]) >>
      [] OTHER -> << >>

\* The statements of stmts[k..], the first of them starting at line `first`
\* of the statements' own lines.
RECURSIVE ModuleBody(_, _, _, _)
ModuleBody(code, stmts, k, first) ==
    IF k > Len(stmts) THEN << >>
    ELSE LET n  == Len(SourceLines(stmts[k]))
             ln == [j \in 1..n |-> AbsLine(code, first + j - 1)]
         IN  Statements(stmts[k], ln) \o ModuleBody(code, stmts, k + 1, first + n)

Has(code, stmt) == \E k \in 1..Len(code.stmts) : code.stmts[k] = stmt

\* The first line, of the statements' own lines, of the first `stmt`.
FirstLineOf(code, stmt) ==
    LET k == Min({i \in 1..Len(code.stmts) : code.stmts[i] = stmt})
    IN  Len(BaseLines(SubSeq(code.stmts, 1, k - 1))) + 1

\* ast.parse(code): kind "tree" with the Module; kind "SyntaxError" with
\* the exception's lineno and msg; kind "raise" with the class of any other
\* exception.  A lone surrogate fails while the text is encoded, a NUL
\* before any line is read, a malformed statement at its line.
parse(code) ==
    IF Has(code, "surrogate")
    THEN [kind |-> "raise", exc |-> "UnicodeEncodeError"]
    ELSE IF Has(code, "nul")
    THEN [kind |-> "SyntaxError", lineno |-> None,
          msg |-> "source code string cannot contain null bytes"]
    ELSE IF Has(code, "broken")
    THEN [kind |-> "SyntaxError",
          lineno |-> AbsLine(code, FirstLineOf(code, "broken")),
          msg |-> "invalid syntax"]
    ELSE [kind |-> "tree", tree |-> ModuleNode(ModuleBody(code, code.stmts, 1, 1))]

(***************************************************************************)
(* The rules that read the syntax tree.  Each returns the diagnostics it   *)
(* appends to `issues`, in the order it appends them.                       *)
(***************************************************************************)
FunctionTypes == {"FunctionDef", "AsyncFunctionDef"}

\* name.startswith("_"), over the names the rules exempt.
StartsWithUnderscore(name) ==
    name \in {"_", "__all__", "__version__", "__author__"}

\* d[key] = val on a dict kept as its items in insertion order.
DictSet(d, key, val) ==
    IF \E i \in 1..Len(d) : d[i].key = key
    THEN [i \in 1..Len(d) |-> IF d[i].key = key THEN [key |-> key, val |-> val]
                                                 ELSE d[i]]
    ELSE Append(d, [key |-> key, val |-> val])

\* for target in child.targets: ... assigned[target.id] = target.lineno
RECURSIVE AssignTargets(_, _)
AssignTargets(targets, assigned) ==
    IF targets = << >> THEN assigned
    ELSE LET t == Head(targets)
         IN  AssignTargets(Tail(targets),
                 IF t.type = "Name" /\ ~StartsWithUnderscore(t.id)
                 THEN DictSet(assigned, t.id, t.lineno)
                 ELSE assigned)

\* The loop over ast.walk(node) of one scope: the assigned dict and the
\* used set once every child is seen.
RECURSIVE Tally(_, _, _)
Tally(children, assigned, used) ==
    IF children = << >> THEN [assigned |-> assigned, used |-> used]
    ELSE LET child == Head(children)
         IN  IF child.type = "Assign"
             THEN Tally(Tail(children),
                        AssignTargets(Field(child, "targets"), assigned), used)
             ELSE IF child.type = "AugAssign"
             THEN Tally(Tail(children), assigned,
                        IF Field(child, "target")[1].type = "Name"
                        THEN used \cup {Field(child, "target")[1].id}
                        ELSE used)
             ELSE IF child.type = "Name" /\ Field(child, "ctx")[1].type = "Load"
             THEN Tally(Tail(children), assigned, used \cup {child.id})
             ELSE Tally(Tail(children), assigned, used)

\* The children one scope tallies: ast.walk(node), the scope's whole
\* subtree, nested function bodies included.
ScopeChildren(node) == walk(node)

\* The diagnostics of one scope.
ScopeUnused(node) ==
    LET t    == Tally(ScopeChildren(node), << >>, {})
        keep == {i \in 1..Len(t.assigned) :
                    /\ t.assigned[i].key \notin t.used
                    /\ t.assigned[i].key \notin {"__all__", "__version__", "__author__"}}
        at   == Ascending(keep)
    IN  [k \in 1..Len(at) |->
            Issue("BUG", t.assigned[at[k]].val,
                  Msg("unused_variable", t.assigned[at[k]].key, 0))]

\* RULE 3
_check_unused_variables(tree) ==
    LET one(node) == IF node.type \in FunctionTypes \cup {"Module"}
                     THEN ScopeUnused(node) ELSE << >>
        nodes == walk(tree)
    IN  Flatten([i \in 1..Len(nodes) |-> one(nodes[i])])

\* RULE 4
_check_function_length(tree) ==
    LET one(node) ==
          IF node.type \in FunctionTypes
          THEN LET start  == node.lineno
                   sub    == walk(node)
                   end    == Max({IF sub[i].lineno = None THEN start ELSE sub[i].lineno :
                                     i \in 1..Len(sub)})
                   length == end - start + 1
               IN  IF length > FuncVeryLong
                   THEN << Issue("WARNING", start,
                                 Msg("function_very_long", node.name, length)) >>
                   ELSE IF length > FuncLong
                   THEN << Issue("INFO", start,
                                 Msg("function_long", node.name, length)) >>
                   ELSE << >>
          ELSE << >>
        nodes == walk(tree)
    IN  Flatten([i \in 1..Len(nodes) |-> one(nodes[i])])

\* RULE 5
_check_bare_except(tree) ==
    LET one(node) ==
          IF node.type = "ExceptHandler" /\ Field(node, "type") = << >>
          THEN << Issue("WARNING", node.lineno, Msg("bare_except", "", 0)) >>
          ELSE << >>
        nodes == walk(tree)
    IN  Flatten([i \in 1..Len(nodes) |-> one(nodes[i])])

\* node.body and isinstance(node.body[0], ast.Expr)
\*           and isinstance(node.body[0].value, ast.Constant)
HasDocstring(node) ==
    /\ Field(node, "body") # << >>
    /\ Field(node, "body")[1].type = "Expr"
    /\ Field(Field(node, "body")[1], "value")[1].type = "Constant"

\* RULE 6
_check_missing_docstrings(tree) ==
    LET one(node) ==
          IF /\ node.type \in FunctionTypes \cup {"ClassDef"}
             /\ ~HasDocstring(node)
             /\ ~StartsWithUnderscore(node.name)
          THEN << Issue("INFO", node.lineno,
                        Msg(IF node.type \in FunctionTypes
                            THEN "function_missing_docstring"
                            ELSE "class_missing_docstring", node.name, 0)) >>
          ELSE << >>
        nodes == walk(tree)
    IN  Flatten([i \in 1..Len(nodes) |-> one(nodes[i])])

MUTABLE_TYPES == {"List", "Dict", "Set"}

\* RULE 7: one diagnostic per function, at the first mutable default.
_check_mutable_defaults(tree) ==
    LET one(node) ==
          IF node.type \in FunctionTypes
          THEN LET args     == Field(node, "args")[1]
                   defaults == Field(args, "defaults") \o Field(args, "kw_defaults")
               IN  IF \E i \in 1..Len(defaults) : defaults[i].type \in MUTABLE_TYPES
                   THEN << Issue("BUG", node.lineno,
                                 Msg("mutable_default", node.name, 0)) >>
                   ELSE << >>
          ELSE << >>
        nodes == walk(tree)
    IN  Flatten([i \in 1..Len(nodes) |-> one(nodes[i])])

\* RULE 8
_check_magic_numbers(tree) ==
    LET one(node) ==
          IF /\ node.type = "Constant"
             /\ node.value.kind \in {"int", "float"}
             /\ node.value.num \notin MAGIC_NUMBER_WHITELIST
             /\ node.col_offset # NoColumn
          THEN << Issue("INFO", node.lineno,
                        Msg("magic_number", "", node.value.num)) >>
          ELSE << >>
        nodes == walk(tree)
    IN  Flatten([i \in 1..Len(nodes) |-> one(nodes[i])])

\* _loop_depth(node, depth): the deepest loop nesting on a path from node.
RECURSIVE _loop_depth(_, _)
RECURSIVE MaxChildDepth(_, _, _)
_loop_depth(node, depth) ==
    LET d == IF node.type \in {"For", "While"} THEN depth + 1 ELSE depth
    IN  MaxChildDepth(iter_child_nodes(node), d, d)

MaxChildDepth(children, depth, max_depth) ==
    IF children = << >> THEN max_depth
    ELSE LET child_depth == _loop_depth(Head(children), depth)
         IN  MaxChildDepth(Tail(children), depth,
                           IF child_depth > max_depth THEN child_depth ELSE max_depth)

\* RULE 9
_check_nested_loops(tree) ==
    LET one(node) ==
          IF /\ node.type \in FunctionTypes \cup {"Module"}
             /\ _loop_depth(node, 0) >= LoopDepthLimit
          THEN << Issue("WARNING", node.lineno,
                        Msg("nested_loops", "", _loop_depth(node, 0))) >>
          ELSE << >>
        nodes == walk(tree)
    IN  Flatten([i \in 1..Len(nodes) |-> one(nodes[i])])

\* The names one Import or ImportFrom binds, added to imported_names.
RECURSIVE ImportAliases(_, _, _)
ImportAliases(names, lineno, imported) ==
    IF names = << >> THEN imported
    ELSE LET alias == Head(names)
             name  == IF alias.asname # "" THEN alias.asname ELSE alias.name[1]
         IN  ImportAliases(Tail(names), lineno, DictSet(imported, name, lineno))

RECURSIVE ImportedNames(_, _)
ImportedNames(nodes, imported) ==
    IF nodes = << >> THEN imported
    ELSE LET node == Head(nodes)
         IN  IF node.type = "Import"
             THEN ImportedNames(Tail(nodes),
                      ImportAliases(Field(node, "names"), node.lineno, imported))
             ELSE IF node.type = "ImportFrom"
             THEN ImportedNames(Tail(nodes),
                      ImportAliases(
                          SelectSeq(Field(node, "names"),
                                    LAMBDA a : a.name # << "*" >>),
                          node.lineno, imported))
             ELSE ImportedNames(Tail(nodes), imported)

UsedNames(nodes) ==
    {nodes[i].id : i \in {j \in 1..Len(nodes) :
                            /\ nodes[j].type = "Name"
                            /\ Field(nodes[j], "ctx")[1].type = "Load"}}
    \cup
    {Field(nodes[i], "value")[1].id : i \in {j \in 1..Len(nodes) :
                            /\ nodes[j].type = "Attribute"
                            /\ Field(nodes[j], "value")[1].type = "Name"}}

\* RULE 10
_check_unused_imports(tree) ==
    LET imported == ImportedNames(walk(tree), << >>)
        used     == UsedNames(walk(tree))
        at       == Ascending({i \in 1..Len(imported) : imported[i].key \notin used})
    IN  [k \in 1..Len(at) |->
            Issue("WARNING", imported[at[k]].val,
                  Msg("unused_import", imported[at[k]].key, 0))]

(***************************************************************************)
(* _build_response: the summary and the sort.                               *)
(***************************************************************************)
\* order.get(severity, 3)
SeverityRank(severity) ==
    CASE severity = "ERROR"   -> 0
      [] severity = "BUG"     -> 1
      [] severity = "WARNING" -> 2
      [] severity = "INFO"    -> 3
      [] OTHER                -> DefaultRank

\* x.get("line") or 9999
LineKey(line) == IF line = None THEN NoLineKey ELSE line

\* The sort key of a diagnostic, and the order of two keys.
SortKey(x) == << SeverityRank(x.severity), LineKey(x.line) >>

KeyLess(a, b) == a[1] < b[1] \/ (a[1] = b[1] /\ a[2] < b[2])

\* x put into an already sorted list after every element whose key is not
\* greater than its own: list.sort is stable.
InsertSorted(sorted, x) ==
    LET k == Cardinality({i \in 1..Len(sorted) :
                             ~KeyLess(SortKey(x), SortKey(sorted[i]))})
    IN  SubSeq(sorted, 1, k) \o << x >> \o SubSeq(sorted, k + 1, Len(sorted))

RECURSIVE SortInto(_, _)
SortInto(sorted, rest) ==
    IF rest = << >> THEN sorted
    ELSE SortInto(InsertSorted(sorted, Head(rest)), Tail(rest))

\* issues.sort(key=...)
sort(issues) == SortInto(<< >>, issues)

\* for issue in issues: the if/elif chain that counts one severity each.
RECURSIVE SummaryLoop(_, _)
SummaryLoop(issues, summary) ==
    IF issues = << >> THEN summary
    ELSE LET sev == Head(issues).severity
         IN  SummaryLoop(Tail(issues),
                 IF sev = "BUG"
                 THEN [summary EXCEPT !.bugs = @ + 1]
                 ELSE IF sev = "WARNING"
                 THEN [summary EXCEPT !.warnings = @ + 1]
                 ELSE IF sev = "INFO"
                 THEN [summary EXCEPT !.info = @ + 1]
                 ELSE IF sev = "ERROR"
                 THEN [summary EXCEPT !.errors = @ + 1]
                 ELSE summary)

\* Summary without the `elif sev == "ERROR"` branch.
SummaryWithoutErrors(issues) ==
    [SummaryLoop(issues, [bugs |-> 0, warnings |-> 0, info |-> 0, errors |-> 0,
                          total |-> Len(issues)]) EXCEPT !.errors = 0]

Summary(issues) ==
    SummaryLoop(issues, [bugs |-> 0, warnings |-> 0, info |-> 0, errors |-> 0,
                         total |-> Len(issues)])

_build_response(issues) ==
    [issues |-> sort(issues), summary |-> Summary(issues)]

(***************************************************************************)
(* analyze_text.                                                            *)
(***************************************************************************)
\* The rules in the order analyze_text runs them: the two before the
\* `tree is None` return, and the nine after it.
TextRules == << "print", "file_length" >>

TreeRules == << "unused_variables", "function_length", "bare_except",
                "missing_docstrings", "mutable_defaults", "magic_numbers",
                "nested_loops", "unused_imports", "todo" >>

RuleOrder == TextRules \o TreeRules

\* What one rule appends.
RuleIssues(rule, lines, tree) ==
    CASE rule = "print"              -> PrintRule(lines)
      [] rule = "file_length"        -> FileLengthRule(lines)
      [] rule = "unused_variables"   -> _check_unused_variables(tree)
      [] rule = "function_length"    -> _check_function_length(tree)
      [] rule = "bare_except"        -> _check_bare_except(tree)
      [] rule = "missing_docstrings" -> _check_missing_docstrings(tree)
      [] rule = "mutable_defaults"   -> _check_mutable_defaults(tree)
      [] rule = "magic_numbers"      -> _check_magic_numbers(tree)
      [] rule = "nested_loops"       -> _check_nested_loops(tree)
      [] rule = "unused_imports"     -> _check_unused_imports(tree)
      [] rule = "todo"               -> TodoRule(lines)

\* ApplyRule with a marker rule that reports only when nothing was reported
\* before it: a rule that reads the other rules' output.
ApplyRuleUnlessIssues(rule, issues, lines, tree) ==
    IF rule = "todo" /\ issues # << >> THEN issues
    ELSE issues \o RuleIssues(rule, lines, tree)

\* `issues` after one rule has run on it.
ApplyRule(rule, issues, lines, tree) == issues \o RuleIssues(rule, lines, tree)

\* tree = None, the value before ast.parse and after a SyntaxError.
NoTree == Leaf("NoneType")

TreeIsNone(tree) == tree.type = "NoneType"

\* The diagnostic of the `except SyntaxError as e` clause.
SyntaxErrorIssue(e) == Issue("ERROR", e.lineno, Msg("syntax_error", e.msg, 0))

\* The diagnostic appended `if not issues`.
NoIssuesFound == Issue("INFO", None, Msg("no_issues", "", 0))

\* OrNoIssues without its `if not issues`.
OrNoIssuesAlways(issues) == Append(issues, NoIssuesFound)

\* `if not issues: issues.append(...)`
OrNoIssues(issues) == IF issues = << >> THEN << NoIssuesFound >> ELSE issues

\* No Report: the call has not returned.
NoReport == [issues |-> << >>, summary |-> Summary(<< >>)]

\* The rules order[k..] run one after the other on `issues`.
RECURSIVE RunRules(_, _, _, _, _)
RunRules(rules, k, issues, lines, tree) ==
    IF k > Len(rules) THEN issues
    ELSE RunRules(rules, k + 1, ApplyRule(rules[k], issues, lines, tree), lines, tree)

\* analyze_text(code), one call run alone from its first line to its last:
\* the exception that leaves it ("" for none) and the Report it returns.
analyze_text(code) ==
    LET out   == parse(code)
        split == splitlines(code)
    IN  IF out.kind = "raise"
        THEN [exc |-> out.exc, report |-> NoReport]
        ELSE IF out.kind = "SyntaxError"
        THEN [exc |-> "",
              report |-> _build_response(
                  RunRules(TextRules, 1, << SyntaxErrorIssue(out) >>, split, NoTree))]
        ELSE [exc |-> "",
              report |-> _build_response(
                  OrNoIssues(RunRules(RuleOrder, 1, << >>, split, out.tree)))]

(***************************************************************************)
(* The calls of analyze_text.  Each call owns its locals; a call moves     *)
(* from "parse" through "rules" to "done" (it returned a Report) or         *)
(* "raised" (an exception left it).  order[c] is the sequence in which     *)
(* call c runs the rules: RuleOrder in the program.                         *)
(***************************************************************************)
VARIABLES code, pc, lines, tree, issues, next, order, result, exc

vars == << code, pc, lines, tree, issues, next, order, result, exc >>

Calls == 1..NumCalls

\* One list for all calls, as a module-level `issues` would be.
IssuesShared(c) == 1

\* issues = []: the list a call works on is the call's own.
IssuesOf(c) == c

\* The texts of at most MaxStmts statements.
Programs == UNION {[1..n -> Catalogue] : n \in 0..MaxStmts}

\* Where the blank run goes, for statements of L lines: none; appended, to
\* reach the file-length thresholds; before the last line, to stretch a
\* function over the function-length thresholds or to move the last line
\* to the sort's stand-in for "no line" and past it.
Layouts(L) ==
    {[pos |-> L + 1, pad |-> 0]}
    \cup {[pos |-> L + 1, pad |-> t - L] :
             t \in {FileLong, FileLong + 1, FileVeryLong, FileVeryLong + 1}}
    \cup {[pos |-> IF L = 0 THEN 1 ELSE L, pad |-> t - L] :
             t \in {FuncLong + 1, FuncVeryLong + 1, NoLineKey, NoLineKey + 1}}

\* The texts of a set of programs, in every layout.
Codes(programs) ==
    UNION {{[stmts |-> s, pos |-> l.pos, pad |-> l.pad] :
               l \in Layouts(Len(BaseLines(s)))} : s \in programs}

NoCode == [stmts |-> << >>, pos |-> 1, pad |-> 0]

Fresh ==
    /\ lines = [c \in Calls |-> splitlines(NoCode)]
    /\ tree = [c \in Calls |-> NoTree]
    /\ issues = [c \in Calls |-> << >>]
    /\ next = [c \in Calls |-> 1]
    /\ result = [c \in Calls |-> NoReport]
    /\ exc = [c \in Calls |-> ""]

\* One call, on any text of the bounded set.
Init ==
    /\ \E text \in Codes(Programs) :
          code = [c \in Calls |-> IF c = 1 THEN text ELSE NoCode]
    /\ pc = [c \in Calls |-> IF c = 1 THEN "parse" ELSE "idle"]
    /\ order = [c \in Calls |-> RuleOrder]
    /\ Fresh

\* issues = []; lines = code.splitlines(); try: tree = ast.parse(code) ...
Parse(c) ==
    /\ pc[c] = "parse"
    /\ lines' = [lines EXCEPT ![c] = splitlines(code[c])]
    /\ LET out == parse(code[c])
       IN  IF out.kind = "tree"
           THEN /\ tree' = [tree EXCEPT ![c] = out.tree]
                /\ issues' = [issues EXCEPT ![IssuesOf(c)] = << >>]
                /\ pc' = [pc EXCEPT ![c] = "rules"]
                /\ exc' = exc
           ELSE IF out.kind = "SyntaxError"
           THEN /\ tree' = [tree EXCEPT ![c] = NoTree]
                /\ issues' = [issues EXCEPT ![IssuesOf(c)] = << SyntaxErrorIssue(out) >>]
                /\ pc' = [pc EXCEPT ![c] = "rules"]
                /\ exc' = exc
           ELSE /\ tree' = tree
                /\ issues' = [issues EXCEPT ![IssuesOf(c)] = << >>]
                /\ pc' = [pc EXCEPT ![c] = "raised"]
                /\ exc' = [exc EXCEPT ![c] = out.exc]
    /\ UNCHANGED << code, next, order, result >>

\* The `tree is None` return placed right after the parse.
AtTreeCheckFirst(c) == next[c] = 1

\* `if tree is None` sits after the rules of TextRules.
AtTreeCheck(c) == next[c] = Len(TextRules) + 1

\* The next rule of the call runs.
RunRule(c) ==
    /\ pc[c] = "rules"
    /\ next[c] <= Len(order[c])
    /\ ~(AtTreeCheck(c) /\ TreeIsNone(tree[c]))
    /\ issues' = [issues EXCEPT ![IssuesOf(c)] =
                     ApplyRule(order[c][next[c]], issues[IssuesOf(c)], lines[c], tree[c])]
    /\ next' = [next EXCEPT ![c] = next[c] + 1]
    /\ UNCHANGED << code, pc, lines, tree, order, result, exc >>

\* if tree is None: return _build_response(issues, len(lines))
ReturnUnparsed(c) ==
    /\ pc[c] = "rules"
    /\ AtTreeCheck(c)
    /\ TreeIsNone(tree[c])
    /\ result' = [result EXCEPT ![c] = _build_response(issues[IssuesOf(c)])]
    /\ issues' = [issues EXCEPT ![IssuesOf(c)] = sort(issues[IssuesOf(c)])]
    /\ pc' = [pc EXCEPT ![c] = "done"]
    /\ UNCHANGED << code, lines, tree, next, order, exc >>

\* if not issues: ...; return _build_response(issues, len(lines))
Return(c) ==
    /\ pc[c] = "rules"
    /\ next[c] > Len(order[c])
    /\ result' = [result EXCEPT ![c] = _build_response(OrNoIssues(issues[IssuesOf(c)]))]
    /\ issues' = [issues EXCEPT ![IssuesOf(c)] = sort(OrNoIssues(issues[IssuesOf(c)]))]
    /\ pc' = [pc EXCEPT ![c] = "done"]
    /\ UNCHANGED << code, lines, tree, next, order, exc >>

Next ==
    \E c \in Calls : Parse(c) \/ RunRule(c) \/ ReturnUnparsed(c) \/ Return(c)

Spec == Init /\ [][Next]_vars

(***************************************************************************)
(* Concurrent calls: every call runs, on a text of a small set, and the    *)
(* calls' steps interleave freely.                                          *)
(***************************************************************************)
ConcPrograms == {<< "func" >>, << "broken", "print" >>, << "surrogate" >>}

ConcCodes ==
    {[stmts |-> s, pos |-> Len(BaseLines(s)) + 1, pad |-> 0] : s \in ConcPrograms}

InitConc ==
    /\ code \in [Calls -> ConcCodes]
    /\ pc = [c \in Calls |-> "parse"]
    /\ order = [c \in Calls |-> RuleOrder]
    /\ Fresh

SpecConc == InitConc /\ [][Next]_vars

(***************************************************************************)
(* The rules run in another order: one call on a text that parses, with    *)
(* the eleven rule invocations reversed, rotated by one, or with the first *)
(* two exchanged.                                                           *)
(***************************************************************************)
Reverse(seq) == [i \in 1..Len(seq) |-> seq[Len(seq) + 1 - i]]

Rotate(seq) == Tail(seq) \o << Head(seq) >>

SwapFirst(seq) == << seq[2], seq[1] >> \o Tail(Tail(seq))

Orders == {Reverse(RuleOrder), Rotate(RuleOrder), SwapFirst(RuleOrder)}

ParsingPrograms ==
    {s \in Programs : \A k \in 1..Len(s) : s[k] \notin {"broken", "nul", "surrogate"}}

PermLayouts(L) ==
    {[pos |-> L + 1, pad |-> 0],
     [pos |-> IF L = 0 THEN 1 ELSE L, pad |-> NoLineKey - L]}

InitPerm ==
    /\ \E s \in ParsingPrograms : \E l \in PermLayouts(Len(BaseLines(s))) :
          code = [c \in Calls |->
                     IF c = 1 THEN [stmts |-> s, pos |-> l.pos, pad |-> l.pad]
                     ELSE NoCode]
    /\ pc = [c \in Calls |-> IF c = 1 THEN "parse" ELSE "idle"]
    /\ \E o \in Orders : order = [c \in Calls |-> IF c = 1 THEN o ELSE RuleOrder]
    /\ Fresh

NextPerm == \E c \in Calls : Parse(c) \/ RunRule(c) \/ Return(c)

SpecPerm == InitPerm /\ [][NextPerm]_vars

(***************************************************************************)
(* The claims.                                                              *)
(***************************************************************************)
Done(c) == pc[c] = "done"

\* How ast.parse ended on the call's text.
Outcome(c) == parse(code[c])

\* The diagnostics of a Report that the given rules' messages belong to.
IssuesOfRules(report, rules) ==
    SelectSeq(report.issues, LAMBDA x : x.message.rule \in rules)

Severities == << "ERROR", "BUG", "WARNING", "INFO" >>

\* The place of a severity in the priority order, ERROR first.
Priority(severity) == CHOOSE k \in 1..Len(Severities) : Severities[k] = severity

\* Diagnostic a may stand before diagnostic b.
MayPrecede(a, b) ==
    \/ Priority(a.severity) < Priority(b.severity)
    \/ /\ a.severity = b.severity
       /\ \/ b.line = None
          \/ a.line # None /\ a.line <= b.line

\* C1: in every Report the issues are sorted by severity (ERROR, BUG,
\* WARNING, INFO), within one severity by non-decreasing line, and a
\* diagnostic without line stands after every diagnostic of its severity
\* that has one, whatever that line is.
C1_IssuesSorted ==
    \A c \in Calls : Done(c) =>
        \A i, j \in 1..Len(result[c].issues) :
            i < j => MayPrecede(result[c].issues[i], result[c].issues[j])

\* C2: for a text that fails to parse, every comment line with a marker
\* still has its INFO unresolved-marker diagnostic at that line in the
\* Report.
C2_MarkersReportedUnparsed ==
    \A c \in Calls : (Done(c) /\ Outcome(c).kind = "SyntaxError") =>
        \A i \in MarkerLines(lines[c]) :
            \E k \in 1..Len(result[c].issues) :
                result[c].issues[k] =
                    Issue("INFO", i, Msg("todo", strip(LineAt(lines[c], i)), 0))

\* The text holds nothing but whitespace.
WhitespaceOnly(text) ==
    \A k \in 1..Len(BaseLines(text.stmts)) : strip(BaseLines(text.stmts)[k]) = ""

C4_NeverRaises == \A c \in Calls : pc[c] # "raised"

StructuralRules ==
    {"unused_variable", "function_very_long", "function_long", "bare_except",
     "function_missing_docstring", "class_missing_docstring", "mutable_default",
     "magic_number", "nested_loops", "unused_import"}

\* C5: the Report of a text that fails to parse holds exactly one ERROR
\* diagnostic, with the parser's reason and line, no diagnostic of a
\* structural rule, a print-usage WARNING at every line that triggers one,
\* and the file-length diagnostic when the text is longer than 80 lines.
C5_UnparsedReport ==
    \A c \in Calls : (Done(c) /\ Outcome(c).kind = "SyntaxError") =>
        LET r == result[c]
        IN  /\ Cardinality({k \in 1..Len(r.issues) : r.issues[k].severity = "ERROR"}) = 1
            /\ \E k \in 1..Len(r.issues) :
                  r.issues[k] = Issue("ERROR", Outcome(c).lineno,
                                      Msg("syntax_error", Outcome(c).msg, 0))
            /\ IssuesOfRules(r, StructuralRules) = << >>
            /\ \A i \in PrintLines(lines[c]) :
                  \E k \in 1..Len(r.issues) :
                      r.issues[k] = Issue("WARNING", i, Msg("print", "", 0))
            /\ LineCount(lines[c]) > FileLong =>
                  IssuesOfRules(r, {"file_long", "file_very_long"}) # << >>

\* A text that fails to parse at a known line was answered with the ERROR,
\* a print-usage WARNING and a file-length diagnostic.
C5_Witness ==
    /\ Done(1) /\ Outcome(1).kind = "SyntaxError" /\ Outcome(1).lineno # None
    /\ IssuesOfRules(result[1], {"print"}) # << >>
    /\ IssuesOfRules(result[1], {"file_long", "file_very_long"}) # << >>

NumberOf(report, severity) ==
    Cardinality({k \in 1..Len(report.issues) : report.issues[k].severity = severity})

\* C6: in every Report, summary.total is the number of issues and bugs,
\* warnings, info and errors are the numbers of issues of severity BUG,
\* WARNING, INFO and ERROR.
C6_SummaryAgrees ==
    \A c \in Calls : Done(c) =>
        /\ result[c].summary.total = Len(result[c].issues)
        /\ result[c].summary.bugs = NumberOf(result[c], "BUG")
        /\ result[c].summary.warnings = NumberOf(result[c], "WARNING")
        /\ result[c].summary.info = NumberOf(result[c], "INFO")
        /\ result[c].summary.errors = NumberOf(result[c], "ERROR")

\* A Report of the parse-failure path with an ERROR and two WARNINGs.
C6_Witness ==
    /\ Done(1) /\ Outcome(1).kind = "SyntaxError"
    /\ result[1].summary.errors = 1 /\ result[1].summary.warnings = 2

\* The function definitions of a tree, and what one of them assigns and
\* reads.
FunctionsOf(t) == SelectSeq(walk(t), LAMBDA n : n.type \in FunctionTypes)

AssignTargetsIn(f) ==
    Flatten([i \in 1..Len(walk(f)) |->
                IF walk(f)[i].type = "Assign"
                THEN SelectSeq(Field(walk(f)[i], "targets"), LAMBDA t : t.type = "Name")
                ELSE << >>])

ReadIn(f) ==
    {walk(f)[i].id : i \in {j \in 1..Len(walk(f)) :
                              /\ walk(f)[j].type = "Name"
                              /\ Field(walk(f)[j], "ctx")[1].type = "Load"}}

\* C7: a function that assigns x and never reads x yields the BUG
\* unused-variable diagnostic at the assignment's line exactly once, and
\* none when the function reads x.
C7_UnusedOncePerScope ==
    \A c \in Calls : (Done(c) /\ Outcome(c).kind = "tree") =>
        \A i \in 1..Len(FunctionsOf(tree[c])) :
            LET f == FunctionsOf(tree[c])[i]
            IN  \A j \in 1..Len(AssignTargetsIn(f)) :
                    LET t == AssignTargetsIn(f)[j]
                        n == Cardinality({k \in 1..Len(result[c].issues) :
                                 result[c].issues[k] =
                                     Issue("BUG", t.lineno,
                                           Msg("unused_variable", t.id, 0))})
                    IN  n = IF t.id \in ReadIn(f) THEN 0 ELSE 1

\* The Report the call's text gets with the rules in the program's order.
Canonical(c) == analyze_text(code[c]).report

\* C8 as stated: whatever the order of the rule invocations, the Report of
\* a text that parses is the same, issues in the same sequence.
C8_SameSequence == \A c \in Calls : Done(c) => result[c] = Canonical(c)

Occurrences(seq, x) == Cardinality({k \in 1..Len(seq) : seq[k] = x})

\* C8 amended: whatever the order of the rule invocations, the Report has
\* the same summary and the same issues as a multiset, and the sequence is
\* the same up to the order of diagnostics that share severity and line
\* (no line counting as line 9999).
C8_SameUpToTies ==
    \A c \in Calls : Done(c) =>
        LET a == result[c].issues
            b == Canonical(c).issues
        IN  /\ result[c].summary = Canonical(c).summary
            /\ Len(a) = Len(b)
            /\ \A k \in 1..Len(a) : Occurrences(a, a[k]) = Occurrences(b, a[k])
            /\ \A k \in 1..Len(a) : SortKey(a[k]) = SortKey(b[k])

\* A call that ran the rules in another order has returned, and two
\* diagnostics of one severity and line stand in the other order.
C8_Witness ==
    /\ Done(1) /\ order[1] # RuleOrder
    /\ \E k \in 1..Len(result[1].issues) :
          /\ result[1].issues[k] # Canonical(1).issues[k]
          /\ result[1].issues[k].severity = Canonical(1).issues[k].severity
          /\ result[1].issues[k].line = Canonical(1).issues[k].line

FileLengthIssues(report) == IssuesOfRules(report, {"file_long", "file_very_long"})

\* C9: a Report holds no file-length diagnostic for a text of at most 80
\* lines, exactly one, INFO and without line, for 81 to 200 lines, and
\* exactly one, WARNING and without line, for 201 lines or more.
C9_FileLengthTiers ==
    \A c \in Calls : Done(c) =>
        LET n  == LineCount(splitlines(code[c]))
            fl == FileLengthIssues(result[c])
        IN  /\ n <= 80 => fl = << >>
            /\ (n >= 81 /\ n <= 200) =>
                  fl = << Issue("INFO", None, Msg("file_long", "", n)) >>
            /\ n >= 201 =>
                  fl = << Issue("WARNING", None, Msg("file_very_long", "", n)) >>

\* A text of exactly 201 lines that fails to parse got the WARNING.
C9_Witness ==
    /\ Done(1) /\ Outcome(1).kind = "SyntaxError"
    /\ LineCount(splitlines(code[1])) = 201
    /\ Len(FileLengthIssues(result[1])) = 1
    /\ FileLengthIssues(result[1])[1].severity = "WARNING"

\* C10: under every interleaving of concurrent calls, each call ends as it
\* does when run alone, with the same Report or the same exception, and
\* calls on the same text return the same Report.
C10_Reentrant ==
    /\ \A c \in Calls :
          /\ Done(c) => /\ analyze_text(code[c]).exc = ""
                        /\ result[c] = analyze_text(code[c]).report
          /\ pc[c] = "raised" => /\ exc[c] # ""
                                 /\ exc[c] = analyze_text(code[c]).exc
    /\ \A c, d \in Calls :
          (Done(c) /\ Done(d) /\ code[c] = code[d]) => result[c] = result[d]

\* Call 1 has returned its Report while call 2, on the same text, is
\* between two of its rules.
C10_Witness ==
    /\ Done(1) /\ result[1].issues # << >>
    /\ pc[2] = "rules" /\ next[2] > 1 /\ next[2] <= Len(RuleOrder)
    /\ code[2] = code[1]

====
